---------------------------- MODULE Spec2Model ----------------------------
(***************************************************************************)
(* upload_layer.py: a command-line tool that reads a zip archive and       *)
(* publishes it as a new version of an AWS Lambda layer.                   *)
(*                                                                         *)
(* The model follows one process run of main() statement by statement      *)
(* (pc is the statement about to execute), and lets up to MaxRuns runs     *)
(* happen in sequence against the same remote service, whose layer         *)
(* versions outlive each run.  The module keeps no state of its own        *)
(* between calls of upload_lambda_layer (the client is built inside the    *)
(* function), so two runs in sequence are two calls in sequence.           *)
(***************************************************************************)
EXTENDS Integers, Sequences, FiniteSets, TLC

VARIABLES
    pc,             \* statement of main()/upload_lambda_layer about to run
    runs,           \* number of process runs started so far
    argv,           \* the command line of the current run
    args,           \* argparse namespace (line 122), None before parsing
    lambda_client,  \* boto3 client (line 55): None or Some(region)
    handle,         \* the file object f of line 65: "none", "open", "closed"
    zip_content,    \* bytes read at line 66: None or Some(bytes)
    publish_params, \* dict built at lines 69-81: None or Some(record)
    request,        \* what the remote operation received: None or Some(record)
    response,       \* value returned by publish_layer_version: None or Some
    stdout,         \* lines printed to standard output by this run
    stderr,         \* lines printed to standard error by this run
    exc,            \* exception propagating out of upload_lambda_layer
    exit_code,      \* process exit status: None while running
    calls,          \* publish_layer_version calls made by this run
    layers,         \* remote state: latest version of each (region, name)
    results,        \* calls of upload_lambda_layer that returned: arguments, value
    steps           \* statements of upload_lambda_layer executed by this run

vars == <<pc, runs, argv, args, lambda_client, handle, zip_content,
          publish_params, request, response, stdout, stderr, exc, exit_code,
          calls, layers, results, steps>>

\* Number of process runs (calls of the tool) explored in sequence.
MaxRuns == 2

None == <<>>
Some(x) == <<x>>

-----------------------------------------------------------------------------
(* The environment: the filesystem and the command lines tried. *)

\* Paths on the local filesystem and what each resolves to.  A regular
\* file's st_size is the length of its data.
FileSystem ==
    [p \in {"layer.zip", "empty.zip", "gone.zip", "layers", "secret.zip"} |->
        CASE p = "layer.zip"  -> [kind |-> "file", data |-> <<80, 75, 3, 4>>, st_size |-> 4]
          [] p = "empty.zip"  -> [kind |-> "file", data |-> <<>>, st_size |-> 0]
          [] p = "gone.zip"   -> [kind |-> "missing", data |-> <<>>, st_size |-> 0]
          [] p = "layers"     -> [kind |-> "dir", data |-> <<>>, st_size |-> 4096]
          [] p = "secret.zip" -> [kind |-> "unreadable", data |-> <<1, 2>>, st_size |-> 2]]

Paths == DOMAIN FileSystem

LayerNames == {"foo", "bar"}

\* Region names the SDK accepts, and one it rejects when the client is built.
ValidRegions == {"us-east-1", "ap-southeast-1"}
RegionOptions == {None, Some("ap-southeast-1"), Some("bad region")}

DescriptionOptions == {None, Some(""), Some("My custom Lambda layer")}

\* Command lines: complete ones, one asking for help, one without the
\* required --layer-name.
Argvs ==
    [help : {FALSE}, zip_file : {Some(p) : p \in Paths},
     layer_name : {Some(n) : n \in LayerNames},
     region : RegionOptions, description : DescriptionOptions]
    \cup {[help |-> TRUE, zip_file |-> None, layer_name |-> None,
           region |-> None, description |-> None]}
    \cup {[help |-> FALSE, zip_file |-> Some("layer.zip"), layer_name |-> None,
           region |-> None, description |-> None]}

-----------------------------------------------------------------------------
(* Pure helpers. *)

NoException == [type |-> "None", msg |-> "", line |-> 0]

Raise(type, msg, line) == [type |-> type, msg |-> msg, line |-> line]

\* Mutant: "if description is not None" in place of "if description".
Truthy_IsNotNone(description) == description # None

\* Python truthiness of the description argument (line 78).
Truthy(description) == description # None /\ description[1] # ""

TwoDigits(n) == IF n < 10 THEN "0" \o ToString(n) ELSE ToString(n)

\* f"{st_size / (1024*1024):.2f}": the quotient is exact in binary floating
\* point, and the format rounds it to hundredths, ties to even.
FormatMB(st_size) ==
    LET num == st_size * 100
        den == 1024 * 1024
        q   == num \div den
        r   == num % den
        h   == IF 2 * r > den \/ (2 * r = den /\ q % 2 = 1) THEN q + 1 ELSE q
    IN  ToString(h \div 100) \o "." \o TwoDigits(h % 100)

LayerArn(region, name) ==
    "arn:aws:lambda:" \o region \o ":123456789012:layer:" \o name

LayerVersionArn(region, name, version) ==
    LayerArn(region, name) \o ":" \o ToString(version)

-----------------------------------------------------------------------------
Init ==
    /\ pc = "idle"
    /\ runs = 0
    /\ argv = None
    /\ args = None
    /\ lambda_client = None
    /\ handle = "none"
    /\ zip_content = None
    /\ publish_params = None
    /\ request = None
    /\ response = None
    /\ stdout = <<>>
    /\ stderr = <<>>
    /\ exc = NoException
    /\ exit_code = None
    /\ calls = 0
    /\ layers = [k \in ValidRegions \X LayerNames |-> 0]
    /\ results = <<>>
    /\ steps = <<>>

\* A new process is started with some command line.  Nothing of the previous
\* process survives; the remote service's layers do.
Start ==
    /\ pc \in {"idle", "exited"}
    /\ runs < MaxRuns
    /\ \E a \in Argvs : argv' = Some(a)
    /\ runs' = runs + 1
    /\ pc' = "parse_args"
    /\ args' = None
    /\ lambda_client' = None
    /\ handle' = "none"
    /\ zip_content' = None
    /\ publish_params' = None
    /\ request' = None
    /\ response' = None
    /\ stdout' = <<>>
    /\ stderr' = <<>>
    /\ exc' = NoException
    /\ exit_code' = None
    /\ calls' = 0
    /\ steps' = <<>>
    /\ UNCHANGED <<layers, results>>

\* Line 122, parser.parse_args(): -h prints the help text (its first line
\* stands for it here) and exits 0; a missing
\* required argument prints usage to stderr and exits 2; otherwise the
\* namespace is filled, --region defaulting to us-east-1 and --description
\* to None.
ParseArgs ==
    /\ pc = "parse_args"
    /\ LET a == argv[1] IN
       IF a.help THEN
            /\ stdout' = Append(stdout, "usage: upload_layer.py [-h] --layer-name LAYER_NAME zip_file")
            /\ exit_code' = Some(0)
            /\ pc' = "exited"
            /\ UNCHANGED <<args, stderr>>
       ELSE IF a.zip_file = None \/ a.layer_name = None THEN
            /\ stderr' = Append(stderr, "upload_layer.py: error: the following arguments are required")
            /\ exit_code' = Some(2)
            /\ pc' = "exited"
            /\ UNCHANGED <<args, stdout>>
       ELSE
            /\ args' = Some([zip_file |-> a.zip_file[1],
                             layer_name |-> a.layer_name[1],
                             region |-> IF a.region = None THEN "us-east-1" ELSE a.region[1],
                             description |-> a.description])
            /\ pc' = "create_client"
            /\ UNCHANGED <<stdout, stderr, exit_code>>
    /\ UNCHANGED <<runs, argv, lambda_client, handle, zip_content, publish_params,
                   request, response, exc, calls, layers, results, steps>>

-----------------------------------------------------------------------------
(* upload_lambda_layer, one statement per action. *)

\* Mutant: a client that is built without looking at the region name, so a
\* bad region is only noticed later.
CreateClient_Lazy ==
    /\ pc = "create_client"
    /\ steps' = Append(steps, "create_client")
    /\ lambda_client' = Some(args[1].region)
    /\ pc' = "check_exists"
    /\ UNCHANGED <<runs, argv, args, handle, zip_content, publish_params, request,
                   response, stdout, stderr, exc, exit_code, calls, layers, results>>

\* Line 55: boto3.client('lambda', region_name=region).  The SDK checks the
\* region name's format when the client is built and raises on a bad one.
CreateClient ==
    /\ pc = "create_client"
    /\ steps' = Append(steps, "create_client")
    /\ IF args[1].region \in ValidRegions THEN
            /\ lambda_client' = Some(args[1].region)
            /\ pc' = "check_exists"
            /\ UNCHANGED exc
       ELSE
            /\ exc' = Raise("InvalidRegionError",
                            "Provided region_name '" \o args[1].region
                                \o "' doesn't match a supported format.", 55)
            /\ pc' = "except"
            /\ UNCHANGED lambda_client
    /\ UNCHANGED <<runs, argv, args, handle, zip_content, publish_params, request,
                   response, stdout, stderr, exit_code, calls, layers, results>>

\* Mutant: the existence test inverted.
CheckExists_Inverted ==
    /\ pc = "check_exists"
    /\ steps' = Append(steps, "check_exists")
    /\ IF FileSystem[args[1].zip_file].kind # "missing" THEN
            /\ exc' = Raise("FileNotFoundError",
                            "Zip file not found: " \o args[1].zip_file, 60)
            /\ pc' = "except"
       ELSE
            /\ pc' = "print_reading"
            /\ UNCHANGED exc
    /\ UNCHANGED <<runs, argv, args, lambda_client, handle, zip_content,
                   publish_params, request, response, stdout, stderr, exit_code,
                   calls, layers, results>>

\* Mutant: the existence test left out.
CheckExists_NoCheck ==
    /\ pc = "check_exists"
    /\ steps' = Append(steps, "check_exists")
    /\ pc' = "print_reading"
    /\ UNCHANGED <<runs, argv, args, lambda_client, handle, zip_content,
                   publish_params, request, response, stdout, stderr, exc,
                   exit_code, calls, layers, results>>

\* Lines 58-60: if not zip_path.exists(): raise FileNotFoundError(...).
CheckExists ==
    /\ pc = "check_exists"
    /\ steps' = Append(steps, "check_exists")
    /\ IF FileSystem[args[1].zip_file].kind = "missing" THEN
            /\ exc' = Raise("FileNotFoundError",
                            "Zip file not found: " \o args[1].zip_file, 60)
            /\ pc' = "except"
       ELSE
            /\ pc' = "print_reading"
            /\ UNCHANGED exc
    /\ UNCHANGED <<runs, argv, args, lambda_client, handle, zip_content,
                   publish_params, request, response, stdout, stderr, exit_code,
                   calls, layers, results>>

\* Line 62: print(f"Reading zip file: {zip_path}").
PrintReading ==
    /\ pc = "print_reading"
    /\ steps' = Append(steps, "print_reading")
    /\ stdout' = Append(stdout, "Reading zip file: " \o args[1].zip_file)
    /\ pc' = "print_file_size"
    /\ UNCHANGED <<runs, argv, args, lambda_client, handle, zip_content,
                   publish_params, request, response, stderr, exc, exit_code,
                   calls, layers, results>>

\* Line 63: print(f"File size: {zip_path.stat().st_size / (1024*1024):.2f} MB").
\* stat() succeeds on a directory and on a file that cannot be read, and
\* raises on a path that does not exist.
PrintFileSize ==
    /\ pc = "print_file_size"
    /\ steps' = Append(steps, "print_file_size")
    /\ IF FileSystem[args[1].zip_file].kind = "missing" THEN
            /\ exc' = Raise("FileNotFoundError",
                            "[Errno 2] No such file or directory: '"
                                \o args[1].zip_file \o "'", 63)
            /\ pc' = "except"
            /\ UNCHANGED stdout
       ELSE
            /\ stdout' = Append(stdout,
                    "File size: " \o FormatMB(FileSystem[args[1].zip_file].st_size) \o " MB")
            /\ pc' = "open"
            /\ UNCHANGED exc
    /\ UNCHANGED <<runs, argv, args, lambda_client, handle, zip_content,
                   publish_params, request, response, stderr, exit_code, calls,
                   layers, results>>

\* Line 65: open(zip_path, 'rb').  Opening a directory or a file without
\* read permission raises an OSError subclass.
OpenFile ==
    /\ pc = "open"
    /\ steps' = Append(steps, "open")
    /\ LET path == args[1].zip_file
           kind == FileSystem[path].kind
       IN  IF kind = "file" THEN
                /\ handle' = "open"
                /\ pc' = "read"
                /\ UNCHANGED exc
           ELSE
                /\ exc' = CASE kind = "dir" ->
                                 Raise("IsADirectoryError",
                                       "[Errno 21] Is a directory: '" \o path \o "'", 65)
                            [] kind = "unreadable" ->
                                 Raise("PermissionError",
                                       "[Errno 13] Permission denied: '" \o path \o "'", 65)
                            [] OTHER ->
                                 Raise("FileNotFoundError",
                                       "[Errno 2] No such file or directory: '"
                                           \o path \o "'", 65)
                /\ pc' = "except"
                /\ UNCHANGED handle
    /\ UNCHANGED <<runs, argv, args, lambda_client, zip_content, publish_params,
                   request, response, stdout, stderr, exit_code, calls, layers,
                   results>>

\* Line 66: zip_content = f.read(), the whole file in one read.
ReadFile ==
    /\ pc = "read"
    /\ handle = "open"
    /\ steps' = Append(steps, "read")
    /\ zip_content' = Some(FileSystem[args[1].zip_file].data)
    /\ pc' = "close"
    /\ UNCHANGED <<runs, argv, args, lambda_client, handle, publish_params,
                   request, response, stdout, stderr, exc, exit_code, calls,
                   layers, results>>

\* Mutant: the file opened without a with block and never closed.
CloseFile_Leak ==
    /\ pc = "close"
    /\ steps' = Append(steps, "close")
    /\ pc' = "build_params"
    /\ UNCHANGED <<runs, argv, args, lambda_client, handle, zip_content,
                   publish_params, request, response, stdout, stderr, exc,
                   exit_code, calls, layers, results>>

\* Lines 65-66: leaving the with block closes f.
CloseFile ==
    /\ pc = "close"
    /\ steps' = Append(steps, "close")
    /\ handle' = "closed"
    /\ pc' = "build_params"
    /\ UNCHANGED <<runs, argv, args, lambda_client, zip_content, publish_params,
                   request, response, stdout, stderr, exc, exit_code, calls,
                   layers, results>>

\* Mutant: the default description built from the wrong variable.
BuildParams_WrongDefault ==
    /\ pc = "build_params"
    /\ steps' = Append(steps, "build_params")
    /\ publish_params' = Some(
            [LayerName |-> args[1].layer_name,
             Content |-> [ZipFile |-> zip_content[1]],
             CompatibleRuntimes |-> <<"python3.14", "python3.13", "python3.12">>,
             CompatibleArchitectures |-> <<"arm64">>,
             Description |-> IF Truthy(args[1].description)
                             THEN args[1].description[1]
                             ELSE "Lambda layer for " \o args[1].zip_file])
    /\ pc' = "print_uploading"
    /\ UNCHANGED <<runs, argv, args, lambda_client, handle, zip_content, request,
                   response, stdout, stderr, exc, exit_code, calls, layers, results>>

\* Lines 69-81: the publish parameters; the description falls back to a
\* default when the argument is falsy.
BuildParams ==
    /\ pc = "build_params"
    /\ steps' = Append(steps, "build_params")
    /\ publish_params' = Some(
            [LayerName |-> args[1].layer_name,
             Content |-> [ZipFile |-> zip_content[1]],
             CompatibleRuntimes |-> <<"python3.14", "python3.13", "python3.12">>,
             CompatibleArchitectures |-> <<"arm64">>,
             Description |-> IF Truthy(args[1].description)
                             THEN args[1].description[1]
                             ELSE "Lambda layer for " \o args[1].layer_name])
    /\ pc' = "print_uploading"
    /\ UNCHANGED <<runs, argv, args, lambda_client, handle, zip_content, request,
                   response, stdout, stderr, exc, exit_code, calls, layers, results>>

\* Line 84: print(f"\nUploading layer '{layer_name}' to region '{region}'...").
\* The leading newline prints an empty line first.
PrintUploading ==
    /\ pc = "print_uploading"
    /\ steps' = Append(steps, "print_uploading")
    /\ stdout' = stdout \o <<"", "Uploading layer '" \o args[1].layer_name
                                    \o "' to region '" \o args[1].region \o "'...">>
    /\ pc' = "publish_layer_version"
    /\ UNCHANGED <<runs, argv, args, lambda_client, handle, zip_content,
                   publish_params, request, response, stderr, exc, exit_code,
                   calls, layers, results>>

\* Mutant: a result cache keyed by the arguments; a repeated call returns the
\* earlier response without calling the remote operation.
CallRemote_Cached ==
    /\ pc = "publish_layer_version"
    /\ steps' = Append(steps, "publish_layer_version")
    /\ IF \E i \in DOMAIN results : results[i].args = args[1] THEN
            /\ response' = Some(results[CHOOSE i \in DOMAIN results :
                                            results[i].args = args[1]].response)
            /\ pc' = "print_success"
            /\ UNCHANGED <<request, calls>>
       ELSE
            /\ request' = Some([region |-> lambda_client[1], params |-> publish_params[1]])
            /\ calls' = calls + 1
            /\ pc' = "in_flight"
            /\ UNCHANGED response
    /\ UNCHANGED <<runs, argv, args, lambda_client, handle, zip_content,
                   publish_params, stdout, stderr, exc, exit_code, layers, results>>

\* Line 85: lambda_client.publish_layer_version(**publish_params) is sent;
\* the caller blocks until the remote side answers.
CallRemote ==
    /\ pc = "publish_layer_version"
    /\ steps' = Append(steps, "publish_layer_version")
    /\ request' = Some([region |-> lambda_client[1], params |-> publish_params[1]])
    /\ calls' = calls + 1
    /\ pc' = "in_flight"
    /\ UNCHANGED <<runs, argv, args, lambda_client, handle, zip_content,
                   publish_params, response, stdout, stderr, exc, exit_code,
                   layers, results>>

\* The layer a request addresses.
LayerKey(req) == <<req.region, req.params.LayerName>>

\* The remote service assigns each publish call the next version number of
\* the layer it addresses.
NextVersion(key) == layers[key] + 1

\* The answer of the remote service to a successful publish call.
RemoteResponse(key) ==
    [LayerArn |-> LayerArn(key[1], key[2]),
     Version |-> NextVersion(key),
     LayerVersionArn |-> LayerVersionArn(key[1], key[2], NextVersion(key))]

\* Line 85 returns: the remote service created the version and answered;
\* response is bound to the answer.
RemoteReturn ==
    /\ pc = "in_flight"
    /\ LET key == LayerKey(request[1])
       IN  /\ layers' = [layers EXCEPT ![key] = NextVersion(key)]
           /\ response' = Some(RemoteResponse(key))
    /\ pc' = "print_success"
    /\ UNCHANGED <<runs, argv, args, lambda_client, handle, zip_content,
                   publish_params, request, stdout, stderr, exc, exit_code, calls,
                   results, steps>>

\* Mutant: one more attempt after a failed call.
RemoteRaise_Retry ==
    /\ pc = "in_flight"
    /\ IF calls < 2 THEN
            /\ pc' = "publish_layer_version"
            /\ UNCHANGED exc
       ELSE
            /\ exc' = Raise("ClientError",
                            "An error occurred when calling the PublishLayerVersion operation", 85)
            /\ pc' = "except"
    /\ UNCHANGED <<runs, argv, args, lambda_client, handle, zip_content,
                   publish_params, request, response, stdout, stderr, exit_code,
                   calls, layers, results, steps>>

\* Line 85 raises: the remote call signals an error, which propagates out of
\* upload_lambda_layer to the handler in main.  What the service did before
\* failing is not known to the caller: the version may or may not exist.
RemoteRaise ==
    /\ pc = "in_flight"
    /\ \E committed \in BOOLEAN :
          LET key == LayerKey(request[1])
          IN  layers' = IF committed
                        THEN [layers EXCEPT ![key] = NextVersion(key)]
                        ELSE layers
    /\ exc' = Raise("ClientError",
                    "An error occurred when calling the PublishLayerVersion operation", 85)
    /\ pc' = "except"
    /\ UNCHANGED <<runs, argv, args, lambda_client, handle, zip_content,
                   publish_params, request, response, stdout, stderr, exit_code,
                   calls, results, steps>>

\* Line 88: print("\n<check mark> Layer uploaded successfully!"): an empty
\* line, then the success marker (its leading check-mark character is left
\* out of the literal here).
PrintSuccess ==
    /\ pc = "print_success"
    /\ stdout' = stdout \o <<"", "Layer uploaded successfully!">>
    /\ pc' = "print_layer_arn"
    /\ UNCHANGED <<runs, argv, args, lambda_client, handle, zip_content,
                   publish_params, request, response, stderr, exc, exit_code,
                   calls, layers, results, steps>>

\* Mutant: the wrong key of the response printed as the layer ARN.
PrintLayerArn_WrongKey ==
    /\ pc = "print_layer_arn"
    /\ stdout' = Append(stdout, "Layer ARN: " \o response[1].LayerVersionArn)
    /\ pc' = "print_version"
    /\ UNCHANGED <<runs, argv, args, lambda_client, handle, zip_content,
                   publish_params, request, response, stderr, exc, exit_code,
                   calls, layers, results, steps>>

\* Line 89: print(f"Layer ARN: {response['LayerArn']}").
PrintLayerArn ==
    /\ pc = "print_layer_arn"
    /\ stdout' = Append(stdout, "Layer ARN: " \o response[1].LayerArn)
    /\ pc' = "print_version"
    /\ UNCHANGED <<runs, argv, args, lambda_client, handle, zip_content,
                   publish_params, request, response, stderr, exc, exit_code,
                   calls, layers, results, steps>>

\* Line 90: print(f"Version: {response['Version']}").
PrintVersion ==
    /\ pc = "print_version"
    /\ stdout' = Append(stdout, "Version: " \o ToString(response[1].Version))
    /\ pc' = "print_version_arn"
    /\ UNCHANGED <<runs, argv, args, lambda_client, handle, zip_content,
                   publish_params, request, response, stderr, exc, exit_code,
                   calls, layers, results, steps>>

\* Line 91: print(f"Version ARN: {response['LayerVersionArn']}").
PrintVersionArn ==
    /\ pc = "print_version_arn"
    /\ stdout' = Append(stdout, "Version ARN: " \o response[1].LayerVersionArn)
    /\ pc' = "return"
    /\ UNCHANGED <<runs, argv, args, lambda_client, handle, zip_content,
                   publish_params, request, response, stderr, exc, exit_code,
                   calls, layers, results, steps>>

\* Line 93: return response.  Back in main the try block is left without an
\* exception and the process ends with status 0.
Return ==
    /\ pc = "return"
    /\ results' = Append(results, [args |-> args[1], response |-> response[1]])
    /\ exit_code' = Some(0)
    /\ pc' = "exited"
    /\ UNCHANGED <<runs, argv, args, lambda_client, handle, zip_content,
                   publish_params, request, response, stdout, stderr, exc, calls,
                   layers, steps>>

\* Mutant: the handler prints the error and forgets sys.exit(1).
Except_NoExit ==
    /\ pc = "except"
    /\ stderr' = Append(stderr, "Error: " \o exc.msg)
    /\ exit_code' = Some(0)
    /\ pc' = "exited"
    /\ UNCHANGED <<runs, argv, args, lambda_client, handle, zip_content,
                   publish_params, request, response, stdout, exc, calls, layers,
                   results, steps>>

\* Lines 131-133: except Exception as e: print(f"Error: {e}", file=sys.stderr);
\* sys.exit(1).
Except ==
    /\ pc = "except"
    /\ stderr' = Append(stderr, "Error: " \o exc.msg)
    /\ exit_code' = Some(1)
    /\ pc' = "exited"
    /\ UNCHANGED <<runs, argv, args, lambda_client, handle, zip_content,
                   publish_params, request, response, stdout, exc, calls, layers,
                   results, steps>>

Next ==
    \/ Start
    \/ ParseArgs
    \/ CreateClient
    \/ CheckExists
    \/ PrintReading
    \/ PrintFileSize
    \/ OpenFile
    \/ ReadFile
    \/ CloseFile
    \/ BuildParams
    \/ PrintUploading
    \/ CallRemote
    \/ RemoteReturn
    \/ RemoteRaise
    \/ PrintSuccess
    \/ PrintLayerArn
    \/ PrintVersion
    \/ PrintVersionArn
    \/ Return
    \/ Except

Spec == Init /\ [][Next]_vars

-----------------------------------------------------------------------------
(* Vocabulary of the properties. *)

Exited == pc = "exited"

\* upload_lambda_layer was called: the command line parsed.
Called == args # None

PathKind == FileSystem[args[1].zip_file].kind

PathMissing == Called /\ PathKind = "missing"

\* An existing, readable regular file and a region the SDK accepts.
ValidInput == Called /\ PathKind = "file" /\ args[1].region \in ValidRegions

NonBlank(lines) == SelectSeq(lines, LAMBDA l : l # "")

IsPrefix(s, t) == Len(s) <= Len(t) /\ s = SubSeq(t, 1, Len(s))

DefaultDescription == "Lambda layer for " \o args[1].layer_name

\* The three lines printed before the remote call.
LinesBeforeCall ==
    << "Reading zip file: " \o args[1].zip_file,
       "File size: " \o FormatMB(FileSystem[args[1].zip_file].st_size) \o " MB",
       "Uploading layer '" \o args[1].layer_name \o "' to region '"
            \o args[1].region \o "'..." >>

\* The four lines printed after the remote call returned resp.
LinesAfterCall(resp) ==
    << "Layer uploaded successfully!",
       "Layer ARN: " \o resp.LayerArn,
       "Version: " \o ToString(resp.Version),
       "Version ARN: " \o resp.LayerVersionArn >>

StepOrder ==
    << "create_client", "check_exists", "print_reading", "print_file_size",
       "open", "read", "close", "build_params", "print_uploading",
       "publish_layer_version" >>

-----------------------------------------------------------------------------
(* C1 *)

\* C1 (as stated): for a non-existent zip path the call fails with
\* FileNotFound and the number of remote publish calls stays 0.
C1_Original ==
    PathMissing =>
        /\ calls = 0
        /\ Exited => exc.type = "FileNotFoundError"

\* C1 (amended): for a non-existent zip path the number of remote publish
\* calls stays 0 from start to termination and the run fails with exit
\* status 1; the failure is FileNotFoundError("Zip file not found: <path>")
\* whenever the SDK client was constructed, and the client-construction
\* error otherwise.
C1_MissingPathNoRemoteCall ==
    PathMissing =>
        /\ calls = 0
        /\ request = None
        /\ Exited =>
              /\ exit_code = Some(1)
              /\ IF lambda_client # None
                 THEN exc = Raise("FileNotFoundError",
                                  "Zip file not found: " \o args[1].zip_file, 60)
                 ELSE exc.type = "InvalidRegionError"

C1_Witness ==
    PathMissing /\ Exited /\ exc.type = "FileNotFoundError" /\ calls = 0

(* C2 *)

\* C2: a run on valid input (existing readable regular file, region accepted
\* by the SDK) ends having made exactly one remote call, whether that call
\* succeeded or failed; no run makes a second call; and every request
\* carries the fixed runtimes and architecture.
C2_ExactlyOneCall ==
    /\ calls <= 1
    /\ (calls = 0) <=> (request = None)
    /\ request # None =>
          /\ request[1].params.CompatibleRuntimes
                = <<"python3.14", "python3.13", "python3.12">>
          /\ request[1].params.CompatibleArchitectures = <<"arm64">>
    /\ (Exited /\ ValidInput) => calls = 1

C2_Witness ==
    Exited /\ ValidInput /\ exc.type = "ClientError" /\ calls = 1

(* C3 *)

\* C3 (as stated): with the description omitted the request's Description is
\* "Lambda layer for " + layerName; with a description supplied it is the
\* supplied description.
C3_Original ==
    request # None =>
        /\ args[1].description = None =>
              request[1].params.Description = DefaultDescription
        /\ args[1].description # None =>
              request[1].params.Description = args[1].description[1]

\* C3 (amended): with the description omitted the request's Description is
\* "Lambda layer for " + layerName; with a non-empty description supplied
\* it is the supplied description.
C3_DefaultDescription ==
    request # None =>
        /\ args[1].description = None =>
              request[1].params.Description = DefaultDescription
        /\ (args[1].description # None /\ args[1].description[1] # "") =>
              request[1].params.Description = args[1].description[1]

C3_Witness ==
    /\ request # None
    /\ args[1].description = None
    /\ request[1].params.Description = "Lambda layer for foo"

(* C4 *)

\* C4 (as stated): when the remote call raises, the process exits with
\* status 1, stderr holds the error once, prefixed "Error: ", and stdout
\* holds none of the success lines; status 0 only after the remote call
\* returned successfully.
C4_Original ==
    /\ (Exited /\ exc.type = "ClientError") =>
          /\ exit_code = Some(1)
          /\ stderr = << "Error: " \o exc.msg >>
          /\ NonBlank(stdout) = LinesBeforeCall
    /\ exit_code = Some(0) => (response # None /\ calls = 1)

\* C4 (amended): as stated, except that status 0 is also the exit status of
\* a run that only printed the help text (-h), which makes no remote call.
C4_RemoteErrorExit ==
    /\ (Exited /\ exc.type = "ClientError") =>
          /\ exit_code = Some(1)
          /\ stderr = << "Error: " \o exc.msg >>
          /\ NonBlank(stdout) = LinesBeforeCall
    /\ exit_code = Some(0) =>
          \/ response # None /\ calls = 1 /\ exc = NoException
          \/ argv[1].help /\ ~Called /\ calls = 0

C4_Witness ==
    Exited /\ exc.type = "ClientError" /\ exit_code = Some(1) /\ response = None

(* C5 *)

\* C5: while the remote call is in flight stdout holds exactly the three
\* lines Reading / File size / Uploading; until the call has returned no
\* other line is printed; and a successful run ends with those three
\* followed by the success marker, Layer ARN, Version and Version ARN
\* lines, whose values are those of the remote response.
C5_OutputOrder ==
    Called =>
        /\ pc = "in_flight" => NonBlank(stdout) = LinesBeforeCall
        /\ response = None => IsPrefix(NonBlank(stdout), LinesBeforeCall)
        /\ (Exited /\ exit_code = Some(0)) =>
              /\ response # None
              /\ NonBlank(stdout) = LinesBeforeCall \o LinesAfterCall(response[1])
              /\ response[1].Version = layers[LayerKey(request[1])]

C5_Witness ==
    /\ Called /\ Exited /\ exit_code = Some(0)
    /\ Len(NonBlank(stdout)) = 7
    /\ response[1].Version = 2

(* C6 *)

\* C6: of two calls that returned for the same layer, the later one returned
\* the strictly larger version; every call that returned made its own remote
\* call and returned that call's response.
C6_StrictlyIncreasingVersions ==
    /\ \A i, j \in DOMAIN results :
          (i < j /\ results[i].response.LayerArn = results[j].response.LayerArn)
              => results[i].response.Version < results[j].response.Version
    /\ (Called /\ Exited /\ exit_code = Some(0)) =>
          /\ calls = 1
          /\ results[Len(results)].response = response[1]
          /\ response[1].Version = layers[LayerKey(request[1])]

C6_Witness ==
    /\ Len(results) = 2
    /\ results[1].args = results[2].args
    /\ results[1].response.Version = 1
    /\ results[2].response.Version = 2

(* C7 *)

C8_FileClosedBeforeCall ==
    /\ calls >= 1 =>
          /\ handle = "closed"
          /\ request[1].params.Content.ZipFile = FileSystem[args[1].zip_file].data
    /\ handle = "open" => pc \in {"read", "close"}

C8_Witness ==
    /\ pc = "in_flight"
    /\ handle = "closed"
    /\ Len(request[1].params.Content.ZipFile) = 4

(* C9 *)

\* C9: every request has a Description and it is never empty; an empty
\* description argument gets the default "Lambda layer for " + layerName,
\* so the Description equals the user's description exactly when that
\* description is non-empty.
C9_DescriptionNeverEmpty ==
    request # None =>
        /\ "Description" \in DOMAIN request[1].params
        /\ request[1].params.Description # ""
        /\ args[1].description = Some("") =>
              request[1].params.Description = DefaultDescription
        /\ args[1].description # None =>
              ((request[1].params.Description = args[1].description[1])
                  <=> args[1].description[1] # "")

C9_Witness ==
    /\ request # None
    /\ args[1].description = Some("")
    /\ request[1].params.Description = "Lambda layer for bar"

(* C10 *)

\* C10: the statements of upload_lambda_layer run in the fixed order client,
\* existence check, two file lines, open, read, close, build, uploading
\* line, remote call.  For a missing path nothing is printed to stdout and
\* the file is never opened or read, FileNotFound is raised only after the
\* client was constructed, and with a region the SDK rejects the run ends
\* with the client-construction error, not FileNotFound.
C10_StepOrder ==
    /\ IsPrefix(steps, StepOrder)
    /\ PathMissing =>
          /\ stdout = <<>>
          /\ handle = "none"
          /\ zip_content = None
          /\ exc.type = "FileNotFoundError" => lambda_client # None
          /\ (Exited /\ args[1].region \notin ValidRegions) =>
                (exc.type = "InvalidRegionError" /\ steps = <<"create_client">>)

C10_Witness ==
    /\ PathMissing /\ Exited
    /\ exc.type = "InvalidRegionError"
    /\ steps = <<"create_client">>

=============================================================================
